---------------------------- MODULE Spec2Model ----------------------------
(***************************************************************************)
(* A model of the nmoney crate: the Money value (dollars: u64, cents: u8,  *)
(* sign, options), its conversions to and from a cent count (i64), its     *)
(* arithmetic, comparison, parser and formatter.                           *)
(*                                                                         *)
(* The machine integers keep their width.  A u64 is a natural number       *)
(* below 2^64 and an i64 an integer in -2^63 .. 2^63-1; both are held as   *)
(* little-endian sequences of 16-bit limbs (a sign and a magnitude for the *)
(* signed ones), so that a product, a cast or a negation wraps exactly     *)
(* where the machine's does.                                               *)
(***************************************************************************)
EXTENDS Integers, Sequences, FiniteSets

VARIABLES
    overflow_checks,  \* the build: TRUE when integer overflow panics (debug),
                      \* FALSE when it wraps (release)
    reg,              \* the caller's Money values, by name
    out,              \* the last operation: its name, arguments and result
    nops              \* how many operations have run

vars == <<overflow_checks, reg, out, nops>>

-----------------------------------------------------------------------------
(* Natural numbers of any size: limbs of 16 bits, least significant first, *)
(* no zero limb at the high end (zero is the empty sequence).              *)

Limb == 2^16

RECURSIVE BTrim(_)
BTrim(a) ==
    IF a = <<>> THEN <<>>
    ELSE IF a[Len(a)] = 0 THEN BTrim(SubSeq(a, 1, Len(a) - 1))
    ELSE a

RECURSIVE BFromNat(_)
BFromNat(n) ==
    IF n = 0 THEN <<>> ELSE <<n % Limb>> \o BFromNat(n \div Limb)

RECURSIVE BToNat(_)
BToNat(a) ==
    IF a = <<>> THEN 0 ELSE a[1] + Limb * BToNat(Tail(a))

RECURSIVE BAddC(_, _, _)
BAddC(a, b, carry) ==
    IF a = <<>> /\ b = <<>> THEN (IF carry = 0 THEN <<>> ELSE <<carry>>)
    ELSE LET x == IF a = <<>> THEN 0 ELSE a[1]
             y == IF b = <<>> THEN 0 ELSE b[1]
             s == x + y + carry
         IN  <<s % Limb>> \o BAddC(IF a = <<>> THEN <<>> ELSE Tail(a),
                                   IF b = <<>> THEN <<>> ELSE Tail(b),
                                   s \div Limb)

BAdd(a, b) == BTrim(BAddC(a, b, 0))

RECURSIVE BCmpFrom(_, _, _)
BCmpFrom(a, b, i) ==
    IF i = 0 THEN 0
    ELSE IF a[i] < b[i] THEN -1
    ELSE IF a[i] > b[i] THEN 1
    ELSE BCmpFrom(a, b, i - 1)

\* -1, 0 or 1 as a < b, a = b, a > b.
BCmp(a, b) ==
    IF Len(a) < Len(b) THEN -1
    ELSE IF Len(a) > Len(b) THEN 1
    ELSE BCmpFrom(a, b, Len(a))

BLess(a, b) == BCmp(a, b) = -1
BLeq(a, b) == BCmp(a, b) # 1

\* a - b for a >= b.
RECURSIVE BSubB(_, _, _)
BSubB(a, b, borrow) ==
    IF a = <<>> THEN <<>>
    ELSE LET y == IF b = <<>> THEN 0 ELSE b[1]
             d == a[1] - y - borrow
         IN  <<d % Limb>> \o BSubB(Tail(a),
                                   IF b = <<>> THEN <<>> ELSE Tail(b),
                                   IF d < 0 THEN 1 ELSE 0)

BSub(a, b) == BTrim(BSubB(a, b, 0))

\* a * k for a small k (k <= 2^15, so that a limb's product fits).
RECURSIVE BMulC(_, _, _)
BMulC(a, k, carry) ==
    IF a = <<>> THEN BFromNat(carry)
    ELSE LET p == a[1] * k + carry
         IN  <<p % Limb>> \o BMulC(Tail(a), k, p \div Limb)

BMulS(a, k) == BTrim(BMulC(a, k, 0))

\* Short division by a small k, from the high limb down: <<quotient, remainder>>.
RECURSIVE BDivR(_, _, _)
BDivR(a, k, i) ==
    IF i > Len(a) THEN <<<<>>, 0>>
    ELSE LET hi  == BDivR(a, k, i + 1)
             cur == hi[2] * Limb + a[i]
         IN  <<<<cur \div k>> \o hi[1], cur % k>>

BDivS(a, k) == BTrim(BDivR(a, k, 1)[1])
BModS(a, k) == BDivR(a, k, 1)[2]

\* 2^63 and 2^64, and the largest u64 and i64.
Two63 == <<0, 0, 0, 2^15>>
Two64 == <<0, 0, 0, 0, 1>>
U64Max == BSub(Two64, <<1>>)
I64Max == BSub(Two63, <<1>>)

\* a mod 2^(16 * limbs).
BLow(a, limbs) ==
    BTrim(IF Len(a) <= limbs THEN a ELSE SubSeq(a, 1, limbs))

\* A u64's wrapping: a mod 2^64.
WrapU64(a) == BLow(a, 4)

-----------------------------------------------------------------------------
(* Integers of any size: a sign and a magnitude; zero is never negative.   *)

Z(neg, mag) == [neg |-> neg /\ mag # <<>>, mag |-> mag]
ZNat(n) == Z(FALSE, BFromNat(n))
ZZero == Z(FALSE, <<>>)
ZNeg(z) == Z(~z.neg, z.mag)

ZAdd(a, b) ==
    IF a.neg = b.neg THEN Z(a.neg, BAdd(a.mag, b.mag))
    ELSE IF BLeq(b.mag, a.mag) THEN Z(a.neg, BSub(a.mag, b.mag))
    ELSE Z(b.neg, BSub(b.mag, a.mag))

ZSub(a, b) == ZAdd(a, ZNeg(b))

ZLess(a, b) ==
    IF a.neg /\ ~b.neg THEN TRUE
    ELSE IF ~a.neg /\ b.neg THEN FALSE
    ELSE IF a.neg THEN BLess(b.mag, a.mag)
    ELSE BLess(a.mag, b.mag)

\* i64::MIN and i64::MAX, and what fits between them.
I64MinZ == Z(TRUE, Two63)
I64MaxZ == Z(FALSE, I64Max)
InI64(z) == IF z.neg THEN BLeq(z.mag, Two63) ELSE BLess(z.mag, Two63)

\* The two's complement bits of an integer, as a u64: z mod 2^64.
BitsU64(z) ==
    LET m == WrapU64(z.mag)
    IN  IF z.neg /\ m # <<>> THEN BSub(Two64, m) ELSE m

\* The i64 with the bits of u (a cast `as i64`, and a wrapping result).
I64OfBits(u) ==
    IF BLess(u, Two63) THEN Z(FALSE, u) ELSE Z(TRUE, BSub(Two64, u))

WrapI64(z) == I64OfBits(BitsU64(z))

\* i64 division and remainder, truncating toward zero: the remainder has the
\* dividend's sign.
ZDivT(z, k) == Z(z.neg, BDivS(z.mag, k))
ZRemT(z, k) == Z(z.neg, BFromNat(BModS(z.mag, k)))

\* The casts of an i64: `as u64` keeps the bits, `as u8` the low eight.
I64AsU64(z) == BitsU64(z)
I64AsU8(z) == BModS(BitsU64(z), 2^8)

-----------------------------------------------------------------------------
(* Results: Ok(value), Err(error) and a panic, which ends the caller.      *)

Ok(v) == [kind |-> "Ok", val |-> v]
Err(e) == [kind |-> "Err", val |-> e]
Panic(msg) == [kind |-> "Panic", val |-> msg]

-----------------------------------------------------------------------------
(* money/options.rs                                                        *)

DEFAULT_SYMBOL == "$"
DEFAULT_SHOW_SYMBOL == TRUE
DEFAULT_NEGATIVE_VIEW == "Minus"

NegativeView == {"Minus", "Paren", "Hide"}

DigitChars == <<"0", "1", "2", "3", "4", "5", "6", "7", "8", "9">>
is_ascii_digit(ch) == \E i \in 1..Len(DigitChars) : DigitChars[i] = ch

Options_new ==
    [symbol |-> DEFAULT_SYMBOL,
     show_symbol |-> DEFAULT_SHOW_SYMBOL,
     negative_view |-> DEFAULT_NEGATIVE_VIEW]

\* <<the options after the call, the value returned>>
set_symbol(o, symbol) ==
    IF is_ascii_digit(symbol) THEN <<o, FALSE>>
    ELSE <<[o EXCEPT !.symbol = symbol], TRUE>>

set_show_symbol(o, show_symbol) == [o EXCEPT !.show_symbol = show_symbol]

\* A faulty set_negative_view, which stores nothing: C10 must tell it apart.
set_negative_view_noop(o, negative_view) == o

set_negative_view(o, negative_view) == [o EXCEPT !.negative_view = negative_view]

-----------------------------------------------------------------------------
(* money.rs: the value                                                     *)

MoneySign == {"Positive", "Negative"}

Money(dollars, cents, sign, options) ==
    [dollars |-> dollars, cents |-> cents, sign |-> sign, options |-> options]

\* A faulty Money::new, which takes 100 cents: C9 must tell it apart.
Money_new_lax(dollars, cents, sign) ==
    LET sign1 == IF dollars = <<>> /\ cents = 0 THEN "Positive" ELSE sign
    IN  IF cents <= 100 THEN Ok(Money(dollars, cents, sign1, Options_new))
        ELSE Err("MoneyErrorCents")

Money_new(dollars, cents, sign) ==
    LET sign1 == IF dollars = <<>> /\ cents = 0 THEN "Positive" ELSE sign
    IN  IF cents < 100 THEN Ok(Money(dollars, cents, sign1, Options_new))
        ELSE Err("MoneyErrorCents")

Money_default == Money(<<>>, 0, "Positive", Options_new)

-----------------------------------------------------------------------------
(* money.rs: the cent count                                                *)

\* `sum *= -1` and `whole *= -1` on an i64: -i64::MIN does not fit, and the
\* build decides between a panic and the wrapped product.
I64Negate(z) ==
    IF InI64(ZNeg(z)) THEN Ok(ZNeg(z))
    ELSE IF overflow_checks THEN Panic("attempt to multiply with overflow")
    ELSE Ok(WrapI64(ZNeg(z)))

\* `money.dollars * 100` on a u64.
U64Times100(dollars) ==
    LET prod == BMulS(dollars, 100)
    IN  IF BLess(prod, Two64) THEN Ok(prod)
        ELSE IF overflow_checks THEN Panic("attempt to multiply with overflow")
        ELSE Ok(WrapU64(prod))

convert_money_to_whole(money) ==
    LET prod == U64Times100(money.dollars)
    IN  IF prod.kind = "Panic" THEN prod
        ELSE LET dollars == I64OfBits(prod.val)
                 cents   == ZNat(money.cents)
                 sum     == ZAdd(dollars, cents)
             IN  IF InI64(sum)
                 THEN IF money.sign = "Negative" THEN I64Negate(sum) ELSE Ok(sum)
                 ELSE Err("MoneyErrorOverflow")

\* A faulty convert_whole_to_money, which splits the cent count without
\* negating it first: C4 must tell it apart.
convert_whole_to_money_unnegated(whole) ==
    LET sign == IF ZLess(whole, ZZero) THEN "Negative" ELSE "Positive"
    IN  Ok(Money(I64AsU64(ZDivT(whole, 100)),
                 I64AsU8(ZRemT(whole, 100)),
                 sign,
                 Options_new))

convert_whole_to_money(whole) ==
    LET negated == IF ZLess(whole, ZZero) THEN I64Negate(whole) ELSE Ok(whole)
        sign    == IF ZLess(whole, ZZero) THEN "Negative" ELSE "Positive"
    IN  IF negated.kind = "Panic" THEN negated
        ELSE Ok(Money(I64AsU64(ZDivT(negated.val, 100)),
                      I64AsU8(ZRemT(negated.val, 100)),
                      sign,
                      Options_new))

as_cents(money) == convert_money_to_whole(money)

from_cents(cents) == convert_whole_to_money(cents)

\* Result::expect and Result::unwrap: an Err becomes a panic.
Expect(r, msg) == IF r.kind = "Err" THEN Panic(msg) ELSE r

-----------------------------------------------------------------------------
(* money.rs: the operators                                                 *)

\* A faulty addition, whose result keeps the left operand's options: C13
\* must tell it apart.
Money_add_keeping_options(self, other) ==
    LET whole_1 == Expect(convert_money_to_whole(self), "overflow on addition")
        whole_2 == Expect(convert_money_to_whole(other), "overflow on addition")
    IN  IF whole_1.kind = "Panic" THEN whole_1
        ELSE IF whole_2.kind = "Panic" THEN whole_2
        ELSE LET sum == ZAdd(whole_1.val, whole_2.val)
                 res == convert_whole_to_money(sum)
             IN  IF ~InI64(sum) THEN Panic("overflow on addition")
                 ELSE IF res.kind = "Panic" THEN res
                 ELSE Ok([res.val EXCEPT !.options = self.options])

Money_add(self, other) ==
    LET whole_1 == Expect(convert_money_to_whole(self), "overflow on addition")
        whole_2 == Expect(convert_money_to_whole(other), "overflow on addition")
    IN  IF whole_1.kind = "Panic" THEN whole_1
        ELSE IF whole_2.kind = "Panic" THEN whole_2
        ELSE LET sum == ZAdd(whole_1.val, whole_2.val)
             IN  IF InI64(sum) THEN convert_whole_to_money(sum)
                 ELSE Panic("overflow on addition")

Money_sub(self, other) ==
    LET whole_1 == Expect(convert_money_to_whole(self), "overflow on subtraction")
        whole_2 == Expect(convert_money_to_whole(other), "overflow on subtraction")
    IN  IF whole_1.kind = "Panic" THEN whole_1
        ELSE IF whole_2.kind = "Panic" THEN whole_2
        ELSE LET difference == ZSub(whole_1.val, whole_2.val)
             IN  IF InI64(difference) THEN convert_whole_to_money(difference)
                 ELSE Panic("underflow on subtraction")

Money_neg(self) ==
    LET sign == IF self.sign = "Positive" THEN "Negative" ELSE "Positive"
    IN  Money(self.dollars, self.cents, sign, self.options)

Money_eq(self, other) ==
    /\ self.dollars = other.dollars
    /\ self.cents = other.cents
    /\ self.sign = other.sign

partial_cmp(self, other) ==
    LET m1 == Expect(as_cents(self), "unwrap on an Err value")
        m2 == Expect(as_cents(other), "unwrap on an Err value")
    IN  IF m1.kind = "Panic" THEN m1
        ELSE IF m2.kind = "Panic" THEN m2
        ELSE IF ZLess(m1.val, m2.val) THEN Ok("Less")
        ELSE IF ZLess(m2.val, m1.val) THEN Ok("Greater")
        ELSE Ok("Equal")

copy_options(dest, src) == [dest EXCEPT !.options = src.options]

-----------------------------------------------------------------------------
(* money.rs: the text.  A string is a sequence of characters, a character  *)
(* a string of length one.                                                 *)

DigitOf(ch) == (CHOOSE i \in 1..Len(DigitChars) : DigitChars[i] = ch) - 1

\* format!("{}", n) of an unsigned integer: its decimal digits.
RECURSIVE DecDigits(_)
DecDigits(a) ==
    IF a = <<>> THEN <<>>
    ELSE DecDigits(BDivS(a, 10)) \o <<DigitChars[BModS(a, 10) + 1]>>

FormatUnsigned(a) == IF a = <<>> THEN <<"0">> ELSE DecDigits(a)

\* format!("{:02}", n): at least two digits, padded with zeros.
FormatPad2(n) ==
    LET d == FormatUnsigned(BFromNat(n))
    IN  IF Len(d) < 2 THEN <<"0">> \o d ELSE d

Display_fmt(self) ==
    LET s0 == FormatUnsigned(self.dollars) \o <<".">> \o FormatPad2(self.cents)
        s1 == IF self.options.show_symbol THEN <<self.options.symbol>> \o s0 ELSE s0
    IN  IF self.sign = "Negative"
        THEN IF self.options.negative_view = "Minus" THEN <<"-">> \o s1
             ELSE IF self.options.negative_view = "Paren" THEN <<"(">> \o s1 \o <<")">>
             ELSE s1
        ELSE s1

\* str::parse of an unsigned integer type with largest value max: an optional
\* '+', then one or more digits, the value no larger than max.
RECURSIVE ParseDigits(_, _, _)
ParseDigits(digits, acc, max) ==
    IF digits = <<>> THEN Ok(acc)
    ELSE IF ~is_ascii_digit(digits[1]) THEN Err("InvalidDigit")
    ELSE LET nxt == BAdd(BMulS(acc, 10), BFromNat(DigitOf(digits[1])))
         IN  IF BLess(max, nxt) THEN Err("PosOverflow")
             ELSE ParseDigits(Tail(digits), nxt, max)

ParseUnsigned(src, max) ==
    IF src = <<>> THEN Err("Empty")
    ELSE IF Len(src) = 1 /\ src[1] \in {"+", "-"} THEN Err("InvalidDigit")
    ELSE ParseDigits(IF src[1] = "+" THEN Tail(src) ELSE src, <<>>, max)

\* str::split("."): the pieces between the separators.
RECURSIVE SplitDot(_, _)
SplitDot(r, piece) ==
    IF r = <<>> THEN <<piece>>
    ELSE IF r[1] = "." THEN <<piece>> \o SplitDot(Tail(r), <<>>)
    ELSE SplitDot(Tail(r), Append(piece, r[1]))

starts_with(r, ch) == r # <<>> /\ r[1] = ch
ends_with(r, ch) == r # <<>> /\ r[Len(r)] = ch

\* from_str after the sign: r is the rest of the text.
from_str_body(r, sign, is_paren) ==
    IF r = <<>> THEN Panic("cannot remove a char from the end of a string")
    ELSE LET leading == r[1]
             symbol  == IF is_ascii_digit(leading) THEN <<>> ELSE <<leading>>
             r1      == IF is_ascii_digit(leading) THEN r ELSE Tail(r)
             v       == SplitDot(r1, <<>>)
         IN  IF Len(v) # 2 THEN Err("MoneyErrorString")
             ELSE LET d == ParseUnsigned(v[1], U64Max)
                      c == ParseUnsigned(v[2], BFromNat(2^8 - 1))
                  IN  IF d.kind = "Err" \/ c.kind = "Err" THEN Err("MoneyErrorString")
                      ELSE IF BToNat(c.val) >= 100 THEN Err("MoneyErrorString")
                      ELSE LET m0 == Expect(Money_new(d.val, BToNat(c.val), sign),
                                            "unwrap on an Err value")
                               o1 == IF is_paren
                                     THEN set_negative_view(m0.val.options, "Paren")
                                     ELSE m0.val.options
                               o2 == IF symbol # <<>>
                                     THEN set_symbol(o1, symbol[1])[1]
                                     ELSE set_show_symbol(o1, FALSE)
                           IN  IF m0.kind = "Panic" THEN m0
                               ELSE Ok([m0.val EXCEPT !.options = o2])

from_str(s) ==
    IF starts_with(s, "-") THEN from_str_body(Tail(s), "Negative", FALSE)
    ELSE IF starts_with(s, "(")
         THEN IF ends_with(s, ")")
              THEN from_str_body(SubSeq(s, 2, Len(s) - 1), "Negative", TRUE)
              ELSE Err("MoneyErrorString")
    ELSE from_str_body(s, "Positive", FALSE)

-----------------------------------------------------------------------------
(* The caller: a program that holds two Money values and applies the       *)
(* crate's public operations to them.  A panic ends it.                    *)

Regs == {"a", "b"}

\* The operations one run applies.
MaxOps == 3

Done(op, args, res) ==
    /\ out' = [op |-> op, args |-> args, res |-> res]
    /\ nops' = nops + 1
    /\ UNCHANGED overflow_checks

\* `let r = <call>`: r takes the value of a call that returns one.
Assign(r, res) ==
    reg' = IF res.kind = "Ok" THEN [reg EXCEPT ![r] = res.val] ELSE reg

Alive == out.res.kind # "Panic" /\ nops < MaxOps

Init ==
    /\ overflow_checks \in BOOLEAN
    /\ reg = [r \in Regs |-> Money_default]
    /\ out = [op |-> "none", args |-> <<>>, res |-> Ok("none")]
    /\ nops = 0

New(r, dollars, cents, sign) ==
    /\ Alive
    /\ Assign(r, Money_new(dollars, cents, sign))
    /\ Done("new", <<dollars, cents, sign>>, Money_new(dollars, cents, sign))

FromCents(r, cents) ==
    /\ Alive
    /\ Assign(r, from_cents(cents))
    /\ Done("from_cents", <<cents>>, from_cents(cents))

FromStr(r, s) ==
    /\ Alive
    /\ Assign(r, from_str(s))
    /\ Done("from_str", <<s>>, from_str(s))

AsCents(p) ==
    /\ Alive
    /\ UNCHANGED reg
    /\ Done("as_cents", <<reg[p]>>, as_cents(reg[p]))

ToString(p) ==
    /\ Alive
    /\ UNCHANGED reg
    /\ Done("to_string", <<reg[p]>>, Ok(Display_fmt(reg[p])))

Add(r, p, q) ==
    /\ Alive
    /\ Assign(r, Money_add(reg[p], reg[q]))
    /\ Done("add", <<reg[p], reg[q]>>, Money_add(reg[p], reg[q]))

Sub(r, p, q) ==
    /\ Alive
    /\ Assign(r, Money_sub(reg[p], reg[q]))
    /\ Done("sub", <<reg[p], reg[q]>>, Money_sub(reg[p], reg[q]))

AddAssign(p, q) ==
    /\ Alive
    /\ Assign(p, Money_add(reg[p], reg[q]))
    /\ Done("add_assign", <<reg[p], reg[q]>>, Money_add(reg[p], reg[q]))

SubAssign(p, q) ==
    /\ Alive
    /\ Assign(p, Money_sub(reg[p], reg[q]))
    /\ Done("sub_assign", <<reg[p], reg[q]>>, Money_sub(reg[p], reg[q]))

Neg(r, p) ==
    /\ Alive
    /\ Assign(r, Ok(Money_neg(reg[p])))
    /\ Done("neg", <<reg[p]>>, Ok(Money_neg(reg[p])))

Eq(p, q) ==
    /\ Alive
    /\ UNCHANGED reg
    /\ Done("eq", <<reg[p], reg[q]>>, Ok(Money_eq(reg[p], reg[q])))

PartialCmp(p, q) ==
    /\ Alive
    /\ UNCHANGED reg
    /\ Done("partial_cmp", <<reg[p], reg[q]>>, partial_cmp(reg[p], reg[q]))

CopyOptions(dest, src) ==
    /\ Alive
    /\ dest # src
    /\ Assign(dest, Ok(copy_options(reg[dest], reg[src])))
    /\ Done("copy_options", <<reg[dest], reg[src]>>, Ok(copy_options(reg[dest], reg[src])))

SetSymbol(r, symbol) ==
    /\ Alive
    /\ reg' = [reg EXCEPT ![r].options = set_symbol(reg[r].options, symbol)[1]]
    /\ Done("set_symbol", <<reg[r], symbol>>, Ok(set_symbol(reg[r].options, symbol)[2]))

SetShowSymbol(r, show_symbol) ==
    /\ Alive
    /\ reg' = [reg EXCEPT ![r].options = set_show_symbol(reg[r].options, show_symbol)]
    /\ Done("set_show_symbol", <<reg[r], show_symbol>>, Ok(TRUE))

SetNegativeView(r, negative_view) ==
    /\ Alive
    /\ reg' = [reg EXCEPT ![r].options = set_negative_view(reg[r].options, negative_view)]
    /\ Done("set_negative_view", <<reg[r], negative_view>>, Ok(TRUE))

-----------------------------------------------------------------------------
(* The arguments the caller passes.                                        *)

\* 10^17, by its limbs' products.
TenTo17 == BMulS(BMulS(BMulS(BMulS(BFromNat(10^5), 10^4), 10^4), 10^2), 10^2)
\* 2^61: times 100 it has the bits of i64::MIN.
Two61 == <<0, 0, 0, 2^13>>
\* The largest dollars whose cent count fits an i64: i64::MAX / 100.
MaxDollars == BDivS(I64Max, 100)

\* Dollars: small ones, the largest that fits, one whose cent count passes
\* i64::MAX but not u64::MAX, and one whose cent count passes u64::MAX.
DollarInputs == {<<>>, BFromNat(4), BFromNat(12), MaxDollars, TenTo17, Two61}

\* Cents (a u8): valid ones around the carry and around i64::MAX's last
\* two digits (07), and two that are too large.
CentInputs == {0, 7, 8, 56, 99, 100, 255}

\* Cent counts (an i64): zero, small ones of both signs, and the ends.
WholeInputs ==
    {ZZero, ZNat(576), ZNeg(ZNat(525)), ZNeg(ZNat(1)),
     I64MaxZ, I64MinZ, ZAdd(I64MinZ, ZNat(1))}

\* The values Money::new builds from these arguments.
Constructible ==
    {Money_new(d, c, s).val :
        d \in DollarInputs, c \in {x \in CentInputs : x < 100}, s \in MoneySign}

\* Symbols: characters set_symbol takes (two of them the parser's own sign
\* marks) and a digit, which it refuses.
SymbolInputs == {"#", "-", "(", "1"}

\* Short runs of operations draw from these.
FewDollars == {<<>>, BFromNat(5)}
FewCents == {0, 25, 100}
FewWholes == {ZZero, ZNeg(ZNat(525))}
FewTexts ==
    {<<>>,
     <<"5", ".", "2", "5">>,
     <<"(", "#", "5", ".", "2", "5", ")">>}

\* Every string over the alphabet of length n, and up to it.
RECURSIVE StringsOfLen(_, _)
StringsOfLen(alphabet, n) ==
    IF n = 0 THEN {<<>>}
    ELSE {Append(t, ch) : t \in StringsOfLen(alphabet, n - 1), ch \in alphabet}

StringsUpTo(alphabet, n) == UNION {StringsOfLen(alphabet, k) : k \in 0..n}

\* The length of the text between the sign marks.
MaxBody == 5

BodyChars == {"$", ".", "0", "1", "+", "-"}

\* Texts: a body, bare or after '-' or '(' and before ')'.
TextInputs ==
    {pre \o body \o suf :
        pre \in {<<>>, <<"-">>, <<"(">>},
        body \in StringsUpTo(BodyChars, MaxBody),
        suf \in {<<>>, <<")">>}}

-----------------------------------------------------------------------------
(* Spec: short runs of every operation, from default values.               *)

Next ==
    \/ \E r \in Regs, d \in FewDollars, c \in FewCents, s \in MoneySign : New(r, d, c, s)
    \/ \E r \in Regs, n \in FewWholes : FromCents(r, n)
    \/ \E r \in Regs, t \in FewTexts : FromStr(r, t)
    \/ \E r, p \in Regs : FromStr(r, Display_fmt(reg[p]))
    \/ \E p \in Regs : AsCents(p)
    \/ \E p \in Regs : ToString(p)
    \/ \E r, p, q \in Regs : Add(r, p, q)
    \/ \E r, p, q \in Regs : Sub(r, p, q)
    \/ \E p, q \in Regs : AddAssign(p, q)
    \/ \E p, q \in Regs : SubAssign(p, q)
    \/ \E r, p \in Regs : Neg(r, p)
    \/ \E p, q \in Regs : Eq(p, q)
    \/ \E p, q \in Regs : PartialCmp(p, q)
    \/ \E p, q \in Regs : CopyOptions(p, q)
    \/ \E r \in Regs, ch \in SymbolInputs : SetSymbol(r, ch)
    \/ \E r \in Regs, b \in BOOLEAN : SetShowSymbol(r, b)
    \/ \E r \in Regs, v \in NegativeView : SetNegativeView(r, v)

Spec == Init /\ [][Next]_vars

-----------------------------------------------------------------------------
(* SpecValues: one operation on values built from the boundary arguments.  *)

InitValues ==
    /\ overflow_checks \in BOOLEAN
    /\ reg \in [Regs -> Constructible]
    /\ out = [op |-> "none", args |-> <<>>, res |-> Ok("none")]
    /\ nops = 0

First == nops = 0

NextValues ==
    \/ First /\ \E d \in DollarInputs, c \in CentInputs, s \in MoneySign :
                   New("a", d, c, s)
    \/ First /\ \E n \in WholeInputs : FromCents("a", n)
    \/ First /\ AsCents("a")
    \/ First /\ Add("a", "a", "b")
    \/ First /\ Sub("a", "a", "b")
    \/ First /\ Neg("a", "a")
    \/ First /\ Eq("a", "b")
    \/ First /\ PartialCmp("a", "b")

SpecValues == InitValues /\ [][NextValues]_vars

-----------------------------------------------------------------------------
(* SpecText: the parser, once, on every short text.                        *)

NextText == First /\ \E t \in TextInputs : FromStr("a", t)

SpecText == Init /\ [][NextText]_vars

-----------------------------------------------------------------------------
(* SpecOptions: one arithmetic operation on values whose options the       *)
(* caller has set.                                                         *)

\* The options the setters leave, from the defaults: a symbol taken and a
\* digit refused, the symbol shown or not, every negative view.
OptionInputs ==
    {set_negative_view(set_show_symbol(set_symbol(Options_new, ch)[1], b), v) :
        ch \in {"#", "1"}, b \in BOOLEAN, v \in NegativeView}

\* The values Money::new builds, with these options.
Optioned ==
    {[Money_new(d, c, s).val EXCEPT !.options = o] :
        d \in FewDollars, c \in {x \in FewCents : x < 100}, s \in MoneySign,
        o \in OptionInputs}

InitOptions ==
    /\ overflow_checks \in BOOLEAN
    /\ reg \in [Regs -> Optioned]
    /\ out = [op |-> "none", args |-> <<>>, res |-> Ok("none")]
    /\ nops = 0

NextOptions ==
    \/ First /\ \E r, p, q \in Regs : Add(r, p, q)
    \/ First /\ \E r, p, q \in Regs : Sub(r, p, q)
    \/ First /\ \E p, q \in Regs : AddAssign(p, q)
    \/ First /\ \E p, q \in Regs : SubAssign(p, q)
    \/ First /\ \E r, p \in Regs : Neg(r, p)

SpecOptions == InitOptions /\ [][NextOptions]_vars

-----------------------------------------------------------------------------
(* What the claims speak of: the amount a value stands for, as an integer  *)
(* of any size, and the value an integer stands for.                       *)

\* sign * (dollars * 100 + cents)
Total(v) == Z(v.sign = "Negative", BAdd(BMulS(v.dollars, 100), BFromNat(v.cents)))

Triple(v) == [dollars |-> v.dollars, cents |-> v.cents, sign |-> v.sign]

\* |n| / 100, |n| % 100, Negative iff n < 0
TripleOf(n) ==
    [dollars |-> BDivS(n.mag, 100),
     cents   |-> BModS(n.mag, 100),
     sign    |-> IF n.neg THEN "Negative" ELSE "Positive"]

\* C1: no Money value the caller holds is a negative zero: dollars 0 and
\* cents 0 go with sign Positive.
C1_NoNegativeZero ==
    \A r \in Regs :
        (reg[r].dollars = <<>> /\ reg[r].cents = 0) => reg[r].sign = "Positive"

\* C2: as_cents returns Ok(n) only for n the amount of its argument, and
\* MoneyErrorOverflow whenever dollars*100 + cents passes i64::MAX.
C2_AsCentsExact ==
    out.op = "as_cents" =>
        LET v == out.args[1]
        IN  /\ out.res.kind = "Ok" => out.res.val = Total(v)
            /\ BLess(I64Max, Total(v).mag) => out.res = Err("MoneyErrorOverflow")

\* C3: a + b and a - b either panic or return the value of the sum or the
\* difference of the amounts of a and b.
C3_AddSubExact ==
    out.op \in {"add", "sub"} =>
        LET a == out.args[1]
            b == out.args[2]
            t == IF out.op = "add" THEN ZAdd(Total(a), Total(b))
                 ELSE ZSub(Total(a), Total(b))
        IN  \/ out.res.kind = "Panic"
            \/ /\ out.res.kind = "Ok"
               /\ InI64(t)
               /\ Triple(out.res.val) = TripleOf(t)

\* C4, as claimed: for every value from Money::new, as_cents succeeds and
\* from_cents of its result equals the value.
C4_RoundTripAll ==
    out.op = "as_cents" =>
        /\ out.res.kind = "Ok"
        /\ from_cents(out.res.val).kind = "Ok"
        /\ Money_eq(from_cents(out.res.val).val, out.args[1])

\* C4, amended: for every value from Money::new whose amount in cents,
\* dollars*100 + cents, is at most i64::MAX, as_cents succeeds and from_cents
\* of its result equals the value in dollars, cents and sign.
C4_RoundTripInRange ==
    (out.op = "as_cents" /\ BLeq(Total(out.args[1]).mag, I64Max)) =>
        /\ out.res.kind = "Ok"
        /\ from_cents(out.res.val).kind = "Ok"
        /\ Triple(from_cents(out.res.val).val) = Triple(out.args[1])

\* as_cents has run on the largest negative amount that fits: -i64::MAX.
C4_Witness ==
    /\ out.op = "as_cents"
    /\ out.args[1].dollars = MaxDollars
    /\ out.args[1].cents = 7
    /\ out.args[1].sign = "Negative"
    /\ out.res.kind = "Ok"

\* C5: from_cents(n) returns, for every i64 n, the value with dollars
\* |n| / 100, cents |n| % 100, sign Negative iff n < 0, and default options.
C5_FromCentsExact ==
    out.op = "from_cents" =>
        /\ out.res.kind = "Ok"
        /\ Triple(out.res.val) = TripleOf(out.args[1])
        /\ out.res.val.cents \in 0..99
        /\ out.res.val.options =
               [symbol |-> "$", show_symbol |-> TRUE, negative_view |-> "Minus"]

\* C6: from_str ends, on every text, in Ok(value) or Err(MoneyErrorString).
C6_ParseReturns ==
    out.op = "from_str" =>
        \/ out.res.kind = "Ok"
        \/ out.res = Err("MoneyErrorString")

\* C7: the text of a value whose negative_view is Minus or Paren parses, and
\* to a value equal to it in dollars, cents and sign.
C7_FormatParseRoundTrip ==
    \A p \in Regs :
        ( /\ out.op = "from_str"
          /\ reg[p].options.negative_view \in {"Minus", "Paren"}
          /\ out.args[1] = Display_fmt(reg[p]) )
        => /\ out.res.kind = "Ok"
           /\ Triple(out.res.val) = Triple(reg[p])

\* C8: comparing a with b yields a result, Less exactly when the amount of a
\* is below the amount of b and Greater exactly when it is above; the order
\* is antisymmetric and transitive.
C8_OrderIsOrderOfAmounts ==
    out.op = "partial_cmp" =>
        LET a == out.args[1]
            b == out.args[2]
        IN  /\ out.res.kind = "Ok"
            /\ out.res.val = "Less" <=> ZLess(Total(a), Total(b))
            /\ out.res.val = "Greater" <=> ZLess(Total(b), Total(a))
            /\ out.res.val = "Less" => partial_cmp(b, a) = Ok("Greater")
            /\ \A c \in Constructible :
                   (out.res.val = "Less" /\ partial_cmp(b, c) = Ok("Less"))
                   => partial_cmp(a, c) = Ok("Less")

\* C9: Money::new(d, c, s) succeeds iff c < 100; it returns MoneyErrorCents
\* and no value when c >= 100; a value it returns has dollars d, cents c,
\* options '$', true, Minus, and sign s, or Positive when d and c are 0.
C9_NewContract ==
    out.op = "new" =>
        LET d == out.args[1]
            c == out.args[2]
            s == out.args[3]
        IN  /\ out.res.kind = "Ok" <=> c < 100
            /\ c >= 100 => out.res = Err("MoneyErrorCents")
            /\ c < 100 =>
                 /\ out.res.val.dollars = d
                 /\ out.res.val.cents = c
                 /\ out.res.val.sign =
                        (IF d = <<>> /\ c = 0 THEN "Positive" ELSE s)
                 /\ out.res.val.options =
                        [symbol |-> "$", show_symbol |-> TRUE, negative_view |-> "Minus"]

\* Money::new(0, 0, Negative) has returned a value.
C9_Witness ==
    /\ out.op = "new"
    /\ out.args = <<<<>>, 0, "Negative">>
    /\ out.res.kind = "Ok"
    /\ out.res.val.sign = "Positive"

\* The text after its sign mark: after '-', or between '(' and ')'.
Wrapped(t) == starts_with(t, "(") /\ ends_with(t, ")")
Unsigned(t) ==
    IF starts_with(t, "-") THEN Tail(t)
    ELSE IF Wrapped(t) THEN SubSeq(t, 2, Len(t) - 1)
    ELSE t

\* C10: the options of a parsed value follow the text: negative_view is
\* Paren iff the text is wrapped in '(' and ')', Minus otherwise; a symbol
\* before the digits is the value's symbol, shown; without one the symbol is
\* '$', not shown.
C10_ParsedOptions ==
    (out.op = "from_str" /\ out.res.kind = "Ok") =>
        LET t == out.args[1]
            u == Unsigned(t)
            o == out.res.val.options
        IN  /\ o.negative_view = (IF Wrapped(t) THEN "Paren" ELSE "Minus")
            /\ u # <<>>
            /\ IF u[1] \in {"0", "1", "2", "3", "4", "5", "6", "7", "8", "9"}
               THEN o.show_symbol = FALSE /\ o.symbol = "$"
               ELSE o.show_symbol = TRUE /\ o.symbol = u[1]

\* from_str has parsed "($1.10)".
C10_Witness ==
    /\ out.op = "from_str"
    /\ out.args[1] = <<"(", "$", "1", ".", "1", "0", ")">>
    /\ out.res.kind = "Ok"
    /\ out.res.val.options.negative_view = "Paren"
    /\ out.res.val.options.show_symbol


\* The grammar of a money text:
\*   sign_prefix? symbol? digits "." two_digits sign_suffix?
\* with any character that is no digit taken for a symbol.
AllDigits(s) == \A i \in 1..Len(s) : is_ascii_digit(s[i])

Numeric(b) ==
    \E k \in 2..Len(b) :
        /\ b[k] = "."
        /\ AllDigits(SubSeq(b, 1, k - 1))
        /\ Len(b) = k + 2
        /\ AllDigits(SubSeq(b, k + 1, Len(b)))

InGrammar(t) ==
    LET u == IF starts_with(t, "-") THEN Tail(t)
             ELSE IF starts_with(t, "(")
                  THEN IF Len(t) >= 2 /\ ends_with(t, ")")
                       THEN SubSeq(t, 2, Len(t) - 1)
                       ELSE <<>>
             ELSE t
        b == IF u # <<>> /\ ~is_ascii_digit(u[1]) THEN Tail(u) ELSE u
    IN  Numeric(b)

\* C11: from_str accepts only text of the grammar: it returns no value for
\* a text that has, after the sign prefix and the symbol, anything but one
\* or more digits, a '.', and exactly two digits.
C11_OnlyGrammarAccepted ==
    (out.op = "from_str" /\ out.res.kind = "Ok") => InGrammar(out.args[1])

\* C12: on every pair of values the caller can hold, a == b exactly when
\* comparing a with b yields Equal.
C12_EqIffEqual ==
    out.op = "partial_cmp" =>
        (Money_eq(out.args[1], out.args[2]) <=> out.res = Ok("Equal"))

\* C13: the result of a + b and of a - b has the options '$', true, Minus
\* whatever the options of a and b; after a += b and a -= b the caller holds
\* that result, so a has these options; -a has the options of a.
C13_OptionsFrame ==
    LET defaults == [symbol |-> "$", show_symbol |-> TRUE, negative_view |-> "Minus"]
    IN  /\ (out.op \in {"add", "sub", "add_assign", "sub_assign"} /\ out.res.kind = "Ok") =>
               out.res.val.options = defaults
        /\ (out.op \in {"add_assign", "sub_assign"} /\ out.res.kind = "Ok") =>
               \E p \in Regs : reg[p] = out.res.val /\ reg[p].options = defaults
        /\ out.op = "neg" =>
               /\ out.res.val.options = out.args[1].options
               /\ \E r \in Regs : reg[r] = out.res.val

\* a += b has run on two values neither of which had the default options.
C13_Witness ==
    /\ out.op = "add_assign"
    /\ out.args[1].options.symbol = "#"
    /\ out.args[1].options.negative_view = "Paren"
    /\ out.args[2].options.show_symbol = FALSE
    /\ out.res.kind = "Ok"
    /\ reg["a"] = out.res.val
    /\ reg["a"].options.symbol = "$"

=============================================================================
